---- MODULE Spec2Model ----
(***************************************************************************)
(* Model of calculator/calculator.py: the Calculator class (arithmetic,    *)
(* memory register, bounded history log).                                  *)
(*                                                                         *)
(* Python floats are modelled as rationals n/d in lowest terms over a      *)
(* finite range: a finite result whose magnitude exceeds MaxFloat becomes  *)
(* an infinity, as IEEE-754 doubles do beyond 1.797e308.  The specials are *)
(* d = 0: 1/0 is inf, -1/0 is -inf, 0/0 is nan.  Rounding of the mantissa  *)
(* is not modelled.                                                        *)
(***************************************************************************)
EXTENDS Integers, Sequences, FiniteSets, TLC

\* ------------------------------------------------------------------ bounds

\* Largest finite float magnitude of the model (stands for sys.float_info.max).
MaxFloat == 9

\* Number of calls made in one session.
MaxCalls == 3

\* The same, for the sessions of arithmetic over the wide operand set.
MaxArith == 2

\* Inputs the command loop reads in a run of main().
MaxLines == 2

\* Lines of a piped input.
MaxStream == 2

\* Reads the command loop makes of a piped input, end-of-input reads
\* included.
MaxReads == 4

\* ------------------------------------------------------------------ floats

Abs(i) == IF i < 0 THEN -i ELSE i

Sign(i) == IF i < 0 THEN -1 ELSE IF i > 0 THEN 1 ELSE 0

RECURSIVE Gcd(_, _)
Gcd(a, b) == IF b = 0 THEN a ELSE Gcd(b, a % b)

F(n, d) == [n |-> n, d |-> d]

Inf == F(1, 0)
NegInf == F(-1, 0)
NaN == F(0, 0)
Zero == F(0, 1)

IsFinite(x) == x.d # 0
IsNaN(x) == x.d = 0 /\ x.n = 0
IsInf(x) == x.d = 0 /\ x.n # 0

\* The double nearest to the rational n/d (d # 0): lowest terms, positive
\* denominator, an infinity beyond the finite range.
Round(n, d) ==
  LET s == IF d < 0 THEN -1 ELSE 1
      g == Gcd(Abs(n), Abs(d))
      nn == (s * n) \div g
      dd == (s * d) \div g
  IN  IF Abs(nn) > MaxFloat * dd THEN F(Sign(nn), 0) ELSE F(nn, dd)

\* x + y on floats.
FAdd(x, y) ==
  IF IsNaN(x) \/ IsNaN(y) THEN NaN
  ELSE IF IsInf(x) /\ IsInf(y) THEN (IF x.n = y.n THEN x ELSE NaN)
  ELSE IF IsInf(x) THEN x
  ELSE IF IsInf(y) THEN y
  ELSE Round(x.n * y.d + y.n * x.d, x.d * y.d)

FNeg(x) == F(-x.n, x.d)

\* x - y on floats.
FSub(x, y) ==
  IF IsNaN(x) \/ IsNaN(y) THEN NaN
  ELSE IF IsInf(x) /\ IsInf(y) THEN (IF x.n = y.n THEN NaN ELSE x)
  ELSE IF IsInf(x) THEN x
  ELSE IF IsInf(y) THEN FNeg(y)
  ELSE Round(x.n * y.d - y.n * x.d, x.d * y.d)

\* x * y on floats.
FMul(x, y) ==
  IF IsNaN(x) \/ IsNaN(y) THEN NaN
  ELSE IF IsInf(x) \/ IsInf(y)
       THEN (IF x.n = 0 \/ y.n = 0 THEN NaN ELSE F(Sign(x.n) * Sign(y.n), 0))
  ELSE Round(x.n * y.n, x.d * y.d)

\* x / y on floats, for y that is not a finite zero (the caller tests that).
FDiv(x, y) ==
  IF IsNaN(x) \/ IsNaN(y) THEN NaN
  ELSE IF IsInf(x) /\ IsInf(y) THEN NaN
  ELSE IF IsInf(x) THEN F(Sign(x.n) * Sign(y.n), 0)
  ELSE IF IsInf(y) THEN Zero
  ELSE Round(x.n * y.d, x.d * y.n)

\* float == 0
FIsZero(x) == IsFinite(x) /\ x.n = 0

\* ------------------------------------------------------------ python values

\* Text: what str() of a value prints and what a str value holds.  A numeric
\* literal keeps the number it denotes; any other text is a word.
IntLit(i) == [lit |-> "int", n |-> i, d |-> 1, w |-> ""]
FloatLit(x) == [lit |-> "float", n |-> x.n, d |-> x.d, w |-> ""]
Word(s) == [lit |-> "word", n |-> 0, d |-> 0, w |-> s]

\* Values passed to and returned by the methods.
PInt(i) == [t |-> "int", lit |-> "", n |-> i, d |-> 1, w |-> ""]
PFloat(x) == [t |-> "float", lit |-> "", n |-> x.n, d |-> x.d, w |-> ""]
PStr(txt) == [t |-> "str", lit |-> txt.lit, n |-> txt.n, d |-> txt.d, w |-> txt.w]
PBool(b) == [t |-> "bool", lit |-> "", n |-> (IF b THEN 1 ELSE 0), d |-> 1, w |-> ""]
None == [t |-> "none", lit |-> "", n |-> 0, d |-> 0, w |-> ""]

\* The float held by a float value.
FloatOf(v) == F(v.n, v.d)

\* f"{v}": the text a value is formatted to.
Format(v) ==
  CASE v.t = "int" -> IntLit(v.n)
    [] v.t = "float" -> FloatLit(FloatOf(v))
    [] v.t = "str" -> [lit |-> v.lit, n |-> v.n, d |-> v.d, w |-> v.w]
    [] v.t = "bool" -> Word(IF v.n = 1 THEN "True" ELSE "False")
    [] OTHER -> Word("None")

\* float(v): [exc, val].  exc is "" on success, else the exception raised.
Raise(e) == [exc |-> e, val |-> NaN]
Ok(x) == [exc |-> "", val |-> x]

ToFloat(v) ==
  CASE v.t = "int" \/ v.t = "bool" ->
         (IF Abs(v.n) > MaxFloat THEN Raise("OverflowError") ELSE Ok(F(v.n, 1)))
    [] v.t = "float" -> Ok(FloatOf(v))
    [] v.t = "str" ->
         (IF v.lit = "word" THEN Raise("ValueError")
          ELSE IF v.d = 0 THEN Ok(F(v.n, 0))
          ELSE Ok(Round(v.n, v.d)))
    [] OTHER -> Raise("TypeError")

\* ------------------------------------------------------------------- state

VARIABLES
  memory,       \* self.memory: a float
  history,      \* self.history: sequence of entries, oldest first
  max_history,  \* self.max_history
  last_result,  \* self._last_result: None or a float value
  now,          \* the second the wall clock shows, read by datetime.now()
  call,         \* the most recent call: operation, arguments, outcome
  ncalls,       \* number of calls made since construction
  log,          \* entries appended since construction or the last clear_history
  last_arith,   \* value returned by the latest successful arithmetic call, or None
  mlog,         \* floats added to (sign 1) and subtracted from (sign -1) memory
                \* since construction or the last memory_clear, in call order
  snapshot,     \* the list the caller got from get_history: whether one is
                \* held, whether it is the very list object self.history
                \* refers to, and its items
  file,         \* the file export_history writes: whether it was written,
                \* and the export_time and calculations it holds
  loop,         \* the command loop of main(): where it is, the input it read
                \* last, the message it printed last, how many inputs it read
  stdin         \* the lines of a piped standard input that are not read yet

vars == <<memory, history, max_history, last_result, now, call, ncalls, log,
          last_arith, mlog, snapshot, file, loop, stdin>>

\* Values of max_history the sessions are constructed with (besides the
\* default): the constructor takes any integer.
MaxHistories == {0, 1, 2}

\* Calculator(): max_history defaults to 5.
DefaultMaxHistory == 5

\* Clock readings of the sessions.
Clock == {0}

\* Argument pairs the arithmetic operations are called with in a session.
ArithArgs ==
  {<<PInt(1), PInt(2)>>, <<PInt(2), PInt(0)>>, <<PStr(Word("abc")), PInt(2)>>}

\* The wide set: every pair of zero, two integers whose quotient is no
\* integer, a word and None; and pairs with the largest float, an integer
\* too large for a float, and a numeric text.
WideOperands == {PInt(0), PInt(1), PInt(2), PStr(Word("abc")), None}

WideArgs ==
  (WideOperands \X WideOperands) \cup
  {<<PFloat(F(MaxFloat, 1)), PFloat(F(MaxFloat, 1))>>,
   <<PInt(MaxFloat + 1), PInt(1)>>,
   <<PInt(1), PFloat(Zero)>>,
   <<PStr(IntLit(2)), PInt(1)>>}

\* Arguments memory_add / memory_subtract are called with (None: omitted).
MemoryValues == {None, PInt(2), PFloat(F(MaxFloat, 1)), PStr(Word("abc"))}

\* The record of a call: what was called with what, the exception raised
\* ("" when none), the value returned, and the list returned or written.
Call(op, a, b, exc, ret, out) ==
  [op |-> op, a |-> a, b |-> b, exc |-> exc, ret |-> ret, out |-> out]

NoCall == Call("__init__", None, None, "", None, <<>>)

\* A call ends: it returned ret (and out) or raised exc.
Returns(op, a, b, exc, ret, out) ==
  /\ call' = Call(op, a, b, exc, ret, out)
  /\ ncalls' = ncalls + 1

Max(i, j) == IF i > j THEN i ELSE j
Min(i, j) == IF i < j THEN i ELSE j

\* s[i:] of a Python list.
PySliceFrom(s, i) ==
  LET start == IF i < 0 THEN Max(Len(s) + i, 0) ELSE Min(i, Len(s))
  IN  SubSeq(s, start + 1, Len(s))

\* No list has been returned to the caller yet.
NoSnapshot == [held |-> FALSE, shared |-> FALSE, items |-> <<>>]

\* The export file has not been written.
NoFile == [written |-> FALSE, export_time |-> 0, calculations |-> <<>>]

\* An input of the command loop: a line typed, or input() raising.
Line(text) == [kind |-> "line", text |-> text]
Raised(e) == [kind |-> e, text |-> <<>>]
NoInput == [kind |-> "", text |-> <<>>]

\* main() is not running: the calculator is used as a library.
NoLoop == [pc |-> "none", input |-> NoInput, printed |-> "", lines |-> 0]

\* Calculator.__init__
Init ==
  /\ memory = Zero
  /\ history = <<>>
  /\ max_history \in MaxHistories \cup {DefaultMaxHistory}
  /\ last_result = None
  /\ now \in Clock
  /\ call = NoCall
  /\ ncalls = 0
  /\ log = <<>>
  /\ last_arith = None
  /\ mlog = <<>>
  /\ snapshot = NoSnapshot
  /\ file = NoFile
  /\ loop = NoLoop
  /\ stdin = <<>>

\* ------------------------------------------------------------------ history

\* The timestamped entry _add_to_history builds at clock reading ts.
Entry(ts, text) == [ts |-> ts, text |-> text]

\* Mutant: the trim keeps the first k entries, history[:k], not the last.
add_to_history_keeps_oldest(h, k, ts, text) ==
  LET appended == Append(h, Entry(ts, text))
  IN  IF Len(appended) > k THEN SubSeq(appended, 1, Max(k, 0)) ELSE appended

\* self.history after _add_to_history(entry) at clock reading ts.
add_to_history(h, k, ts, text) ==
  LET appended == Append(h, Entry(ts, text))
  IN  IF Len(appended) > k THEN PySliceFrom(appended, -k) ELSE appended

\* The part of a call that appends one entry: reads the clock, appends, trims.
\* append() changes the list in place, so a list the caller shares with
\* self.history gets the entry too; the trim rebinds self.history to a new
\* list and the sharing ends.
Record(text) ==
  /\ history' = add_to_history(history, max_history, now, text)
  /\ log' = Append(log, Entry(now, text))
  /\ snapshot' =
       IF snapshot.shared
       THEN [held |-> TRUE,
             shared |-> ~(Len(history) + 1 > max_history),
             items |-> Append(history, Entry(now, text))]
       ELSE snapshot

\* ---------------------------------------------------------------- arithmetic

\* Mutant: the clause catches TypeError only, a ValueError propagates.
except_clauses_type_only(e) == e

\* The except clauses of the arithmetic and memory methods: TypeError and
\* ValueError become TypeError, anything else propagates as it is.
except_clauses(e) == IF e \in {"TypeError", "ValueError"} THEN "TypeError" ELSE e

\* float(a), float(b): the operands converted left to right; the first
\* conversion that fails decides the exception.
convert_both(a, b) ==
  LET fa == ToFloat(a)
      fb == ToFloat(b)
  IN  IF fa.exc # "" THEN [exc |-> except_clauses(fa.exc), x |-> NaN, y |-> NaN]
      ELSE IF fb.exc # "" THEN [exc |-> except_clauses(fb.exc), x |-> NaN, y |-> NaN]
      ELSE [exc |-> "", x |-> fa.val, y |-> fb.val]

\* Mutant: the sum starts from the memory register.
add_result_plus_memory(a, b) ==
  LET c == convert_both(a, b)
  IN  IF c.exc # "" THEN Raise(c.exc) ELSE Ok(FAdd(FAdd(c.x, c.y), memory))

add_result(a, b) ==
  LET c == convert_both(a, b)
  IN  IF c.exc # "" THEN Raise(c.exc) ELSE Ok(FAdd(c.x, c.y))

subtract_result(a, b) ==
  LET c == convert_both(a, b)
  IN  IF c.exc # "" THEN Raise(c.exc) ELSE Ok(FSub(c.x, c.y))

multiply_result(a, b) ==
  LET c == convert_both(a, b)
  IN  IF c.exc # "" THEN Raise(c.exc) ELSE Ok(FMul(c.x, c.y))

\* Mutant: both operands are converted before the divisor is tested.
divide_result_converts_first(a, b) ==
  LET fa == ToFloat(a)
      fb == ToFloat(b)
  IN  IF fa.exc # "" THEN Raise(except_clauses(fa.exc))
      ELSE IF fb.exc # "" THEN Raise(except_clauses(fb.exc))
      ELSE IF FIsZero(fb.val) THEN Raise("ZeroDivisionError")
      ELSE Ok(FDiv(fa.val, fb.val))

\* divide converts and tests b first, then divides.
divide_result(a, b) ==
  LET fb == ToFloat(b)
  IN  IF fb.exc # "" THEN Raise(except_clauses(fb.exc))
      ELSE IF FIsZero(fb.val) THEN Raise("ZeroDivisionError")
      ELSE LET c == convert_both(a, b)
           IN  IF c.exc # "" THEN Raise(c.exc) ELSE Ok(FDiv(c.x, c.y))

\* Mutant: a failing call forgets the last result.
arithmetic_resets_on_error(op, sym, a, b, r) ==
  IF r.exc = ""
  THEN /\ Record(<<Format(a), Word(sym), Format(b), Word("="), FloatLit(r.val)>>)
       /\ last_result' = PFloat(r.val)
       /\ Returns(op, a, b, "", PFloat(r.val), <<>>)
       /\ last_arith' = PFloat(r.val)
       /\ UNCHANGED <<memory, max_history, now, mlog, file>>
  ELSE /\ Returns(op, a, b, r.exc, None, <<>>)
       /\ last_result' = None
       /\ UNCHANGED <<memory, history, max_history, now, log, last_arith, mlog,
                      snapshot, file>>

\* The common shape of the four methods: on success append the entry, set
\* _last_result and return the result; on an exception change nothing.
arithmetic(op, sym, a, b, r) ==
  IF r.exc = ""
  THEN /\ Record(<<Format(a), Word(sym), Format(b), Word("="), FloatLit(r.val)>>)
       /\ last_result' = PFloat(r.val)
       /\ Returns(op, a, b, "", PFloat(r.val), <<>>)
       /\ last_arith' = PFloat(r.val)
       /\ UNCHANGED <<memory, max_history, now, mlog, file>>
  ELSE /\ Returns(op, a, b, r.exc, None, <<>>)
       /\ UNCHANGED <<memory, history, max_history, last_result, now, log,
                      last_arith, mlog, snapshot, file>>

add(a, b) ==
  \E r \in {add_result(a, b)} : arithmetic("add", "+", a, b, r)

subtract(a, b) ==
  \E r \in {subtract_result(a, b)} : arithmetic("subtract", "-", a, b, r)

multiply(a, b) ==
  \E r \in {multiply_result(a, b)} : arithmetic("multiply", "*", a, b, r)

divide(a, b) ==
  \E r \in {divide_result(a, b)} : arithmetic("divide", "/", a, b, r)

\* -------------------------------------------------------------------- memory

\* Mutant: with no argument and no last result the operand is 0.
memory_operand_defaults_zero(value, last) ==
  IF value = None
  THEN (IF last = None THEN [exc |-> "", v |-> PInt(0)]
        ELSE [exc |-> "", v |-> last])
  ELSE [exc |-> "", v |-> value]

\* The operand of memory_add / memory_subtract: the argument, or _last_result
\* when it is omitted; ValueError when there is neither.
memory_operand(value, last) ==
  IF value = None
  THEN (IF last = None THEN [exc |-> "ValueError", v |-> None]
        ELSE [exc |-> "", v |-> last])
  ELSE [exc |-> "", v |-> value]

\* Mutant: the operand is stored in memory, not added to it.
memory_update_overwrites(op, sym, sign, value) ==
  LET o == memory_operand(value, last_result)
      f == ToFloat(o.v)
      m == IF sign = 1 THEN f.val ELSE FNeg(f.val)
      failed(e) == /\ Returns(op, value, None, e, None, <<>>)
                   /\ UNCHANGED <<memory, history, max_history, last_result,
                                  now, log, last_arith, mlog, snapshot,
                                  file>>
  IN  IF o.exc # "" THEN failed(o.exc)
      ELSE IF f.exc # "" THEN failed(except_clauses(f.exc))
      ELSE /\ memory' = m
           /\ Record(<<Word(sym), Format(o.v), Word("(Memory:"), FloatLit(m), Word(")")>>)
           /\ Returns(op, value, None, "", None, <<>>)
           /\ mlog' = Append(mlog, [sign |-> sign, x |-> f.val])
           /\ UNCHANGED <<max_history, last_result, now, last_arith, file>>

\* Mutant: a call that fails leaves the memory at 0.0.
memory_update_clears_on_error(op, sym, sign, value) ==
  LET o == memory_operand(value, last_result)
      f == ToFloat(o.v)
      m == IF sign = 1 THEN FAdd(memory, f.val) ELSE FSub(memory, f.val)
      failed(e) == /\ Returns(op, value, None, e, None, <<>>)
                   /\ memory' = Zero
                   /\ UNCHANGED <<history, max_history, last_result, now, log,
                                  last_arith, mlog, snapshot, file>>
  IN  IF o.exc # "" THEN failed(o.exc)
      ELSE IF f.exc # "" THEN failed(except_clauses(f.exc))
      ELSE /\ memory' = m
           /\ Record(<<Word(sym), Format(o.v), Word("(Memory:"), FloatLit(m), Word(")")>>)
           /\ Returns(op, value, None, "", None, <<>>)
           /\ mlog' = Append(mlog, [sign |-> sign, x |-> f.val])
           /\ UNCHANGED <<max_history, last_result, now, last_arith, file>>

\* Mutant: the entry records the memory before the update.
memory_update_logs_old_memory(op, sym, sign, value) ==
  LET o == memory_operand(value, last_result)
      f == ToFloat(o.v)
      m == IF sign = 1 THEN FAdd(memory, f.val) ELSE FSub(memory, f.val)
      failed(e) == /\ Returns(op, value, None, e, None, <<>>)
                   /\ UNCHANGED <<memory, history, max_history, last_result,
                                  now, log, last_arith, mlog, snapshot, file>>
  IN  IF o.exc # "" THEN failed(o.exc)
      ELSE IF f.exc # "" THEN failed(except_clauses(f.exc))
      ELSE /\ memory' = m
           /\ Record(<<Word(sym), Format(o.v), Word("(Memory:"), FloatLit(memory),
                       Word(")")>>)
           /\ Returns(op, value, None, "", None, <<>>)
           /\ mlog' = Append(mlog, [sign |-> sign, x |-> f.val])
           /\ UNCHANGED <<max_history, last_result, now, last_arith, file>>

\* The common shape of memory_add (M+, sign 1) and memory_subtract (M-,
\* sign -1).
memory_update(op, sym, sign, value) ==
  LET o == memory_operand(value, last_result)
      f == ToFloat(o.v)
      m == IF sign = 1 THEN FAdd(memory, f.val) ELSE FSub(memory, f.val)
      failed(e) == /\ Returns(op, value, None, e, None, <<>>)
                   /\ UNCHANGED <<memory, history, max_history, last_result,
                                  now, log, last_arith, mlog, snapshot,
                                  file>>
  IN  IF o.exc # "" THEN failed(o.exc)
      ELSE IF f.exc # "" THEN failed(except_clauses(f.exc))
      ELSE /\ memory' = m
           /\ Record(<<Word(sym), Format(o.v), Word("(Memory:"), FloatLit(m), Word(")")>>)
           /\ Returns(op, value, None, "", None, <<>>)
           /\ mlog' = Append(mlog, [sign |-> sign, x |-> f.val])
           /\ UNCHANGED <<max_history, last_result, now, last_arith, file>>

memory_add(value) == memory_update("memory_add", "M+", 1, value)

memory_subtract(value) == memory_update("memory_subtract", "M-", -1, value)

\* Mutant: the recalled value becomes the last result.
memory_recall_sets_last ==
  /\ Record(<<Word("MR"), Word("(Memory:"), FloatLit(memory), Word(")")>>)
  /\ Returns("memory_recall", None, None, "", PFloat(memory), <<>>)
  /\ last_result' = PFloat(memory)
  /\ UNCHANGED <<memory, max_history, now, last_arith, mlog, file>>

memory_recall ==
  /\ Record(<<Word("MR"), Word("(Memory:"), FloatLit(memory), Word(")")>>)
  /\ Returns("memory_recall", None, None, "", PFloat(memory), <<>>)
  /\ UNCHANGED <<memory, max_history, last_result, now, last_arith, mlog,
                 file>>

\* Mutant: memory_clear appends no entry.
memory_clear_appends_nothing ==
  /\ memory' = Zero
  /\ Returns("memory_clear", None, None, "", None, <<>>)
  /\ mlog' = <<>>
  /\ UNCHANGED <<history, max_history, last_result, now, log, last_arith,
                 snapshot, file>>

\* Mutant: memory_clear appends its entry and leaves the memory as it is.
memory_clear_keeps_memory ==
  /\ Record(<<Word("MC"), Word("(Memory"), Word("cleared)")>>)
  /\ Returns("memory_clear", None, None, "", None, <<>>)
  /\ mlog' = <<>>
  /\ UNCHANGED <<memory, max_history, last_result, now, last_arith, file>>

memory_clear ==
  /\ memory' = Zero
  /\ Record(<<Word("MC"), Word("(Memory"), Word("cleared)")>>)
  /\ Returns("memory_clear", None, None, "", None, <<>>)
  /\ mlog' = <<>>
  /\ UNCHANGED <<max_history, last_result, now, last_arith, file>>

get_memory_value ==
  /\ Returns("get_memory_value", None, None, "", PFloat(memory), <<>>)
  /\ UNCHANGED <<memory, history, max_history, last_result, now, log,
                 last_arith, mlog, snapshot, file>>

\* ------------------------------------------------------------------- history

\* Mutant: get_history returns self.history itself, not a copy.
get_history_returns_the_list ==
  /\ Returns("get_history", None, None, "", None, history)
  /\ snapshot' = [held |-> TRUE, shared |-> TRUE, items |-> history]
  /\ UNCHANGED <<memory, history, max_history, last_result, now, log,
                 last_arith, mlog, file>>

\* get_history returns self.history.copy(): a new list with the same items.
get_history ==
  /\ Returns("get_history", None, None, "", None, history)
  /\ snapshot' = [held |-> TRUE, shared |-> FALSE, items |-> history]
  /\ UNCHANGED <<memory, history, max_history, last_result, now, log,
                 last_arith, mlog, file>>

\* A string that is no entry of the calculator.
FakeEntry == Entry(-1, <<Word("fake entry")>>)

\* The caller appends to the list get_history returned.  The list changes in
\* place: when it is the list self.history refers to, the history changes.
snapshot_append ==
  /\ snapshot.held
  /\ snapshot' = [snapshot EXCEPT !.items = Append(@, FakeEntry)]
  /\ history' = IF snapshot.shared THEN Append(history, FakeEntry) ELSE history
  /\ Returns("list.append", None, None, "", None, <<>>)
  /\ UNCHANGED <<memory, max_history, last_result, now, log, last_arith, mlog,
                 file>>

\* Mutant: clearing the history clears the memory register too.
clear_history_resets_memory ==
  /\ history' = <<>>
  /\ log' = <<>>
  /\ memory' = Zero
  /\ snapshot' = [snapshot EXCEPT !.shared = FALSE]
  /\ Returns("clear_history", None, None, "", None, <<>>)
  /\ UNCHANGED <<max_history, last_result, now, last_arith, mlog, file>>

\* Mutant: clearing the history forgets the last result too.
clear_history_resets_last ==
  /\ history' = <<>>
  /\ log' = <<>>
  /\ last_result' = None
  /\ snapshot' = [snapshot EXCEPT !.shared = FALSE]
  /\ Returns("clear_history", None, None, "", None, <<>>)
  /\ UNCHANGED <<memory, max_history, now, last_arith, mlog, file>>

\* self.history = []: a new list, the old one is left to whoever holds it.
clear_history ==
  /\ history' = <<>>
  /\ log' = <<>>
  /\ snapshot' = [snapshot EXCEPT !.shared = FALSE]
  /\ Returns("clear_history", None, None, "", None, <<>>)
  /\ UNCHANGED <<memory, max_history, last_result, now, last_arith, mlog,
                 file>>

display_history ==
  /\ Returns("display_history", None, None, "", None, <<>>)
  /\ UNCHANGED <<memory, history, max_history, last_result, now, log,
                 last_arith, mlog, snapshot, file>>

\* The object json.dump writes at clock reading ts.
Exported(ts, h) == [written |-> TRUE, export_time |-> ts, calculations |-> h]

\* Mutant: the export writes the entries newest first.
export_history_newest_first(io_ok) ==
  LET rev == [i \in 1..Len(history) |-> history[Len(history) + 1 - i]]
  IN  /\ Returns("export_history", PBool(io_ok), None, "", PBool(io_ok),
                 IF io_ok THEN rev ELSE <<>>)
      /\ file' = IF io_ok THEN Exported(now, rev) ELSE file
      /\ UNCHANGED <<memory, history, max_history, last_result, now, log,
                     last_arith, mlog, snapshot>>

\* Mutant: an I/O error is not caught, OSError reaches the caller.
export_history_propagates(io_ok) ==
  /\ Returns("export_history", PBool(io_ok), None, IF io_ok THEN "" ELSE "OSError",
             IF io_ok THEN PBool(TRUE) ELSE None,
             IF io_ok THEN history ELSE <<>>)
  /\ file' = IF io_ok THEN Exported(now, history) ELSE file
  /\ UNCHANGED <<memory, history, max_history, last_result, now, log,
                 last_arith, mlog, snapshot>>

\* export_history: the write succeeds and the method returns True, or open()
\* or json.dump() raises and it returns False.  The call records whether
\* the file system let the write succeed; out is the "calculations" array
\* written.  When open() raises the file is as it was; when the write
\* raises after open() truncated the file, it holds no complete object.
export_history(io_ok) ==
  /\ Returns("export_history", PBool(io_ok), None, "", PBool(io_ok),
             IF io_ok THEN history ELSE <<>>)
  /\ IF io_ok THEN file' = Exported(now, history) ELSE file' \in {file, NoFile}
  /\ UNCHANGED <<memory, history, max_history, last_result, now, log,
                 last_arith, mlog, snapshot>>

\* ---------------------------------------------------------------------- spec

\* A session: at most MaxCalls calls on a calculator constructed with any
\* of MaxHistories.
Live == ncalls < MaxCalls

Next ==
  \/ Live /\ \E p \in ArithArgs : add(p[1], p[2]) /\ UNCHANGED <<loop, stdin>>
  \/ Live /\ \E p \in ArithArgs : subtract(p[1], p[2]) /\ UNCHANGED <<loop, stdin>>
  \/ Live /\ \E p \in ArithArgs : multiply(p[1], p[2]) /\ UNCHANGED <<loop, stdin>>
  \/ Live /\ \E p \in ArithArgs : divide(p[1], p[2]) /\ UNCHANGED <<loop, stdin>>
  \/ Live /\ \E v \in MemoryValues : memory_add(v) /\ UNCHANGED <<loop, stdin>>
  \/ Live /\ \E v \in MemoryValues : memory_subtract(v) /\ UNCHANGED <<loop, stdin>>
  \/ Live /\ memory_recall /\ UNCHANGED <<loop, stdin>>
  \/ Live /\ memory_clear /\ UNCHANGED <<loop, stdin>>
  \/ Live /\ get_memory_value /\ UNCHANGED <<loop, stdin>>
  \/ Live /\ get_history /\ UNCHANGED <<loop, stdin>>
  \/ Live /\ snapshot_append /\ UNCHANGED <<loop, stdin>>
  \/ Live /\ clear_history /\ UNCHANGED <<loop, stdin>>
  \/ Live /\ display_history /\ UNCHANGED <<loop, stdin>>
  \/ Live /\ \E io_ok \in BOOLEAN : export_history(io_ok) /\ UNCHANGED <<loop, stdin>>

Spec == Init /\ [][Next]_vars

\* A session of arithmetic over the wide argument set on a calculator
\* constructed with the default max_history, with the memory and history
\* calls that change what an arithmetic call could read.
InitArith == Init /\ max_history = DefaultMaxHistory

LiveArith == ncalls < MaxArith

NextArith ==
  \/ LiveArith /\ \E p \in WideArgs : add(p[1], p[2]) /\ UNCHANGED <<loop, stdin>>
  \/ LiveArith /\ \E p \in WideArgs : subtract(p[1], p[2]) /\ UNCHANGED <<loop, stdin>>
  \/ LiveArith /\ \E p \in WideArgs : multiply(p[1], p[2]) /\ UNCHANGED <<loop, stdin>>
  \/ LiveArith /\ \E p \in WideArgs : divide(p[1], p[2]) /\ UNCHANGED <<loop, stdin>>
  \/ LiveArith /\ memory_add(PInt(1)) /\ UNCHANGED <<loop, stdin>>
  \/ LiveArith /\ clear_history /\ UNCHANGED <<loop, stdin>>

SpecArith == InitArith /\ [][NextArith]_vars

\* ------------------------------------------------------------ text of lines

\* A line is the sequence of its characters.
Whitespace == {" "}

Uppers ==
  <<"A", "B", "C", "D", "E", "F", "G", "H", "I", "J", "K", "L", "M",
    "N", "O", "P", "Q", "R", "S", "T", "U", "V", "W", "X", "Y", "Z">>

Lowers ==
  <<"a", "b", "c", "d", "e", "f", "g", "h", "i", "j", "k", "l", "m",
    "n", "o", "p", "q", "r", "s", "t", "u", "v", "w", "x", "y", "z">>

Digits == <<"0", "1", "2", "3", "4", "5", "6", "7", "8", "9">>

\* The lowercase letter of every uppercase letter.
LowerOf ==
  [c \in {Uppers[k] : k \in 1..Len(Uppers)} |->
     Lowers[CHOOSE k \in 1..Len(Uppers) : Uppers[k] = c]]

\* str.lower()
lower(s) ==
  [i \in 1..Len(s) |->
     IF s[i] \in DOMAIN LowerOf THEN LowerOf[s[i]] ELSE s[i]]

RECURSIVE lstrip(_)
lstrip(s) ==
  IF s # <<>> /\ Head(s) \in Whitespace THEN lstrip(Tail(s)) ELSE s

RECURSIVE rstrip(_)
rstrip(s) ==
  IF s # <<>> /\ s[Len(s)] \in Whitespace
  THEN rstrip(SubSeq(s, 1, Len(s) - 1)) ELSE s

\* str.strip()
strip(s) == rstrip(lstrip(s))

\* str.split() scanning s, with the word begun and the words found so far.
RECURSIVE split_scan(_, _, _)
split_scan(s, word, found) ==
  LET closed == IF word = <<>> THEN found ELSE Append(found, word)
  IN  IF s = <<>> THEN closed
      ELSE IF Head(s) \in Whitespace THEN split_scan(Tail(s), <<>>, closed)
      ELSE split_scan(Tail(s), Append(word, Head(s)), found)

\* str.split(): the maximal runs of characters that are no whitespace.
split(s) == split_scan(s, <<>>, <<>>)

\* str.startswith(prefix)
startswith(s, prefix) ==
  Len(s) >= Len(prefix) /\ SubSeq(s, 1, Len(prefix)) = prefix

IsDigits(s) ==
  s # <<>> /\ \A i \in 1..Len(s) : \E k \in 1..Len(Digits) : Digits[k] = s[i]

\* The number a sequence of decimal digits denotes.
RECURSIVE decimal(_)
decimal(s) ==
  IF s = <<>> THEN 0
  ELSE 10 * decimal(SubSeq(s, 1, Len(s) - 1))
       + (CHOOSE k \in 0..9 : Digits[k + 1] = s[Len(s)])

w_quit == <<"q", "u", "i", "t">>
w_help == <<"h", "e", "l", "p">>
w_add == <<"a", "d", "d">>
w_sub == <<"s", "u", "b">>
w_mul == <<"m", "u", "l">>
w_div == <<"d", "i", "v">>
w_m_plus == <<"m", "+">>
w_m_minus == <<"m", "-">>
w_mr == <<"m", "r">>
w_mc == <<"m", "c">>
w_history == <<"h", "i", "s", "t", "o", "r", "y">>
w_clear_history == <<"c", "l", "e", "a", "r", "_", "h", "i", "s", "t", "o", "r", "y">>
w_export == <<"e", "x", "p", "o", "r", "t">>
w_inf == <<"i", "n", "f">>
w_infinity == <<"i", "n", "f", "i", "n", "i", "t", "y">>
w_nan == <<"n", "a", "n">>

\* float(token) of a token of a lowercased line: an optional sign followed
\* by decimal digits, by inf / infinity or by nan; ValueError for any other
\* token the lines of the sessions hold.  A numeral beyond the float range
\* converts to infinity.
str_to_float(token) ==
  LET signed == token # <<>> /\ Head(token) \in {"+", "-"}
      sign == IF token # <<>> /\ Head(token) = "-" THEN -1 ELSE 1
      body == IF signed THEN Tail(token) ELSE token
  IN  IF IsDigits(body) THEN Ok(Round(sign * decimal(body), 1))
      ELSE IF body \in {w_inf, w_infinity} THEN Ok(F(sign, 0))
      ELSE IF body = w_nan THEN Ok(NaN)
      ELSE Raise("ValueError")

\* The lines typed in the sessions: the commands with right and wrong
\* numbers of tokens, in other case and with blanks around ("ADD  1 2 ",
\* " Quit "), with a token that is no number ("add x 2"), with characters
\* after the command name ("addx 1 2", "m+x", "mrx", "quit now"), a word that
\* is no command ("foo") and the empty line.
Lines ==
  {<<"q", "u", "i", "t">>,
   <<" ", "Q", "u", "i", "t", " ">>,
   <<"q", "u", "i", "t", " ", "n", "o", "w">>,
   <<"h", "e", "l", "p">>,
   <<"a", "d", "d", " ", "1", " ", "2">>,
   <<"A", "D", "D", " ", " ", "1", " ", "2", " ">>,
   <<"a", "d", "d", " ", "1">>,
   <<"a", "d", "d", " ", "1", " ", "2", " ", "3">>,
   <<"a", "d", "d">>,
   <<"a", "d", "d", "x", " ", "1", " ", "2">>,
   <<"a", "d", "d", " ", "x", " ", "2">>,
   <<"s", "u", "b", " ", "2", " ", "1">>,
   <<"s", "u", "b", " ", "1">>,
   <<"m", "u", "l", " ", "2", " ", "2">>,
   <<"m", "u", "l">>,
   <<"d", "i", "v", " ", "1", " ", "2">>,
   <<"d", "i", "v", " ", "1", " ", "0">>,
   <<"d", "i", "v", " ", "1", " ", "2", " ", "3">>,
   <<"m", "+", " ", "2">>,
   <<"m", "+">>,
   <<"m", "+", " ", "i", "n", "f">>,
   <<"m", "+", "x">>,
   <<"m", "-", " ", "1">>,
   <<"m", "-">>,
   <<"m", "r">>,
   <<"m", "r", "x">>,
   <<"m", "c">>,
   <<"h", "i", "s", "t", "o", "r", "y">>,
   <<"c", "l", "e", "a", "r", "_", "h", "i", "s", "t", "o", "r", "y">>,
   <<"e", "x", "p", "o", "r", "t">>,
   <<"f", "o", "o">>,
   <<>>}

\* ---------------------------------------------------------------------- main

\* Nothing of the calculator, of what it returned or of what it wrote changes.
CalcUnchanged ==
  UNCHANGED <<memory, history, max_history, last_result, now, call, ncalls,
              log, last_arith, mlog, snapshot, file>>

\* Mutant: the command read is trimmed but keeps its case.
command_keeps_case(text) == strip(text)

\* command = input(...).strip().lower()
command(text) == lower(strip(text))

\* The branch of the if / elif chain a command takes, tested in the order of
\* the code.
branch(c) ==
  IF c = w_quit THEN "quit"
  ELSE IF c = w_help THEN "help"
  ELSE IF startswith(c, w_add) THEN "add"
  ELSE IF startswith(c, w_sub) THEN "sub"
  ELSE IF startswith(c, w_mul) THEN "mul"
  ELSE IF startswith(c, w_div) THEN "div"
  ELSE IF startswith(c, w_m_plus) THEN "m+"
  ELSE IF startswith(c, w_m_minus) THEN "m-"
  ELSE IF c = w_mr THEN "mr"
  ELSE IF c = w_mc THEN "mc"
  ELSE IF c = w_history THEN "history"
  ELSE IF c = w_clear_history THEN "clear_history"
  ELSE IF c = w_export THEN "export"
  ELSE "unknown"

\* Mutant: the loop catches ValueError only.
handler_catches_value_error_only(e) == e = "ValueError"

\* Mutant: the loop has no clause that catches ZeroDivisionError.
handler_misses_zero_division(e) ==
  e \notin {"KeyboardInterrupt", "SystemExit", "GeneratorExit", "ZeroDivisionError"}

\* Mutant: the loop has no clause that catches EOFError.
handler_misses_eof(e) ==
  e \notin {"KeyboardInterrupt", "SystemExit", "GeneratorExit", "EOFError"}

\* except ValueError / ZeroDivisionError / Exception: every exception but
\* those that are no subclass of Exception.
handler_catches(e) == e \notin {"KeyboardInterrupt", "SystemExit", "GeneratorExit"}

\* What the except clause taken prints.
handler_message(e) ==
  IF e = "ValueError" THEN "invalid number format" ELSE "error"

\* Mutant: the usage message is printed for too few tokens only.
wrong_arity_too_few(parts) == Len(parts) < 3

\* len(parts) != 3
wrong_arity(parts) == Len(parts) # 3

\* The loop after an iteration that read ev.
Looped(pc, ev, msg) ==
  [pc |-> pc, input |-> ev, printed |-> msg, lines |-> loop.lines + 1]

\* The end of an iteration that read ev: the branch printed msg, or exc was
\* raised in the try block; an exception caught prints its message and the
\* loop goes on, any other leaves main().
iteration_ends(ev, exc, msg) ==
  loop' = IF exc = "" THEN Looped("prompt", ev, msg)
          ELSE IF handler_catches(exc) THEN Looped("prompt", ev, handler_message(exc))
          ELSE Looped("aborted", ev, "traceback")

\* calc = Calculator(), the banner, and the loop is entered.
main_start ==
  /\ loop.pc = "none" /\ ncalls = 0
  /\ loop' = [loop EXCEPT !.pc = "prompt", !.printed = "banner"]
  /\ CalcUnchanged

\* input() raises: EOFError at the end of the input, KeyboardInterrupt.
main_input_raises(e) ==
  /\ iteration_ends(Raised(e), e, "")
  /\ CalcUnchanged

main_quit(text) ==
  \E c \in {command(text)} :
      /\ branch(c) = "quit"
      /\ loop' = Looped("done", Line(text), "thank you")
      /\ CalcUnchanged

main_help(text) ==
  \E c \in {command(text)} :
      /\ branch(c) = "help"
      /\ iteration_ends(Line(text), "", "help")
      /\ CalcUnchanged

main_add(text) ==
  \E c \in {command(text)} :
      /\ branch(c) = "add"
      /\ \E parts \in {split(c)} :
           IF wrong_arity(parts)
           THEN iteration_ends(Line(text), "", "usage") /\ CalcUnchanged
           ELSE \E fa \in {str_to_float(parts[2])}, fb \in {str_to_float(parts[3])} :
                  IF fa.exc # ""
                  THEN iteration_ends(Line(text), fa.exc, "") /\ CalcUnchanged
                  ELSE IF fb.exc # ""
                  THEN iteration_ends(Line(text), fb.exc, "") /\ CalcUnchanged
                  ELSE /\ add(PFloat(fa.val), PFloat(fb.val))
                       /\ iteration_ends(Line(text), call'.exc, "result")

main_sub(text) ==
  \E c \in {command(text)} :
      /\ branch(c) = "sub"
      /\ \E parts \in {split(c)} :
           IF wrong_arity(parts)
           THEN iteration_ends(Line(text), "", "usage") /\ CalcUnchanged
           ELSE \E fa \in {str_to_float(parts[2])}, fb \in {str_to_float(parts[3])} :
                  IF fa.exc # ""
                  THEN iteration_ends(Line(text), fa.exc, "") /\ CalcUnchanged
                  ELSE IF fb.exc # ""
                  THEN iteration_ends(Line(text), fb.exc, "") /\ CalcUnchanged
                  ELSE /\ subtract(PFloat(fa.val), PFloat(fb.val))
                       /\ iteration_ends(Line(text), call'.exc, "result")

main_mul(text) ==
  \E c \in {command(text)} :
      /\ branch(c) = "mul"
      /\ \E parts \in {split(c)} :
           IF wrong_arity(parts)
           THEN iteration_ends(Line(text), "", "usage") /\ CalcUnchanged
           ELSE \E fa \in {str_to_float(parts[2])}, fb \in {str_to_float(parts[3])} :
                  IF fa.exc # ""
                  THEN iteration_ends(Line(text), fa.exc, "") /\ CalcUnchanged
                  ELSE IF fb.exc # ""
                  THEN iteration_ends(Line(text), fb.exc, "") /\ CalcUnchanged
                  ELSE /\ multiply(PFloat(fa.val), PFloat(fb.val))
                       /\ iteration_ends(Line(text), call'.exc, "result")

main_div(text) ==
  \E c \in {command(text)} :
      /\ branch(c) = "div"
      /\ \E parts \in {split(c)} :
           IF wrong_arity(parts)
           THEN iteration_ends(Line(text), "", "usage") /\ CalcUnchanged
           ELSE \E fa \in {str_to_float(parts[2])}, fb \in {str_to_float(parts[3])} :
                  IF fa.exc # ""
                  THEN iteration_ends(Line(text), fa.exc, "") /\ CalcUnchanged
                  ELSE IF fb.exc # ""
                  THEN iteration_ends(Line(text), fb.exc, "") /\ CalcUnchanged
                  ELSE /\ divide(PFloat(fa.val), PFloat(fb.val))
                       /\ iteration_ends(Line(text), call'.exc, "result")

\* The memory printed is what get_memory_value() then returns.
main_m_plus(text) ==
  \E c \in {command(text)} :
      /\ branch(c) = "m+"
      /\ \E parts \in {split(c)} :
           IF Len(parts) > 1
           THEN \E f \in {str_to_float(parts[2])} :
                  IF f.exc # ""
                  THEN iteration_ends(Line(text), f.exc, "") /\ CalcUnchanged
                  ELSE /\ memory_add(PFloat(f.val))
                       /\ iteration_ends(Line(text), call'.exc, "memory")
           ELSE /\ memory_add(None)
                /\ iteration_ends(Line(text), call'.exc, "memory")

\* The memory printed is what get_memory_value() then returns.
main_m_minus(text) ==
  \E c \in {command(text)} :
      /\ branch(c) = "m-"
      /\ \E parts \in {split(c)} :
           IF Len(parts) > 1
           THEN \E f \in {str_to_float(parts[2])} :
                  IF f.exc # ""
                  THEN iteration_ends(Line(text), f.exc, "") /\ CalcUnchanged
                  ELSE /\ memory_subtract(PFloat(f.val))
                       /\ iteration_ends(Line(text), call'.exc, "memory")
           ELSE /\ memory_subtract(None)
                /\ iteration_ends(Line(text), call'.exc, "memory")

main_mr(text) ==
  \E c \in {command(text)} :
      /\ branch(c) = "mr"
      /\ memory_recall
      /\ iteration_ends(Line(text), call'.exc, "memory value")

main_mc(text) ==
  \E c \in {command(text)} :
      /\ branch(c) = "mc"
      /\ memory_clear
      /\ iteration_ends(Line(text), call'.exc, "memory cleared")

main_history(text) ==
  \E c \in {command(text)} :
      /\ branch(c) = "history"
      /\ display_history
      /\ iteration_ends(Line(text), call'.exc, "")

main_clear_history(text) ==
  \E c \in {command(text)} :
      /\ branch(c) = "clear_history"
      /\ clear_history
      /\ iteration_ends(Line(text), call'.exc, "")

main_export(text) ==
  \E c \in {command(text)} :
      /\ branch(c) = "export"
      /\ \E io_ok \in BOOLEAN : export_history(io_ok)
      /\ iteration_ends(Line(text), call'.exc, "")

main_unknown(text) ==
  \E c \in {command(text)} :
      /\ branch(c) = "unknown"
      /\ iteration_ends(Line(text), "", "unknown command")
      /\ CalcUnchanged

\* What input() can raise at the prompt.
InputErrors == {"EOFError", "KeyboardInterrupt"}

\* A run of main(): at most MaxLines inputs are read.
InitMain == Init /\ max_history = DefaultMaxHistory

Awaiting == loop.pc = "prompt" /\ loop.lines < MaxLines

NextMain ==
  \/ main_start /\ UNCHANGED stdin
  \/ Awaiting /\ \E e \in InputErrors : main_input_raises(e) /\ UNCHANGED stdin
  \/ Awaiting /\ \E text \in Lines : main_quit(text) /\ UNCHANGED stdin
  \/ Awaiting /\ \E text \in Lines : main_help(text) /\ UNCHANGED stdin
  \/ Awaiting /\ \E text \in Lines : main_add(text) /\ UNCHANGED stdin
  \/ Awaiting /\ \E text \in Lines : main_sub(text) /\ UNCHANGED stdin
  \/ Awaiting /\ \E text \in Lines : main_mul(text) /\ UNCHANGED stdin
  \/ Awaiting /\ \E text \in Lines : main_div(text) /\ UNCHANGED stdin
  \/ Awaiting /\ \E text \in Lines : main_m_plus(text) /\ UNCHANGED stdin
  \/ Awaiting /\ \E text \in Lines : main_m_minus(text) /\ UNCHANGED stdin
  \/ Awaiting /\ \E text \in Lines : main_mr(text) /\ UNCHANGED stdin
  \/ Awaiting /\ \E text \in Lines : main_mc(text) /\ UNCHANGED stdin
  \/ Awaiting /\ \E text \in Lines : main_history(text) /\ UNCHANGED stdin
  \/ Awaiting /\ \E text \in Lines : main_clear_history(text) /\ UNCHANGED stdin
  \/ Awaiting /\ \E text \in Lines : main_export(text) /\ UNCHANGED stdin
  \/ Awaiting /\ \E text \in Lines : main_unknown(text) /\ UNCHANGED stdin

SpecMain == InitMain /\ [][NextMain]_vars

\* ---------------------------------------------------------------- piped input

\* The lines of the piped inputs: one for every branch of the loop.
StreamLines ==
  {<<" ", "Q", "u", "i", "t", " ">>,
   <<"h", "e", "l", "p">>,
   <<"a", "d", "d", " ", "1", " ", "2">>,
   <<"s", "u", "b", " ", "2", " ", "1">>,
   <<"m", "u", "l", " ", "2", " ", "2">>,
   <<"d", "i", "v", " ", "1", " ", "0">>,
   <<"m", "+", " ", "2">>,
   <<"m", "-">>,
   <<"m", "r">>,
   <<"m", "c">>,
   <<"h", "i", "s", "t", "o", "r", "y">>,
   <<"c", "l", "e", "a", "r", "_", "h", "i", "s", "t", "o", "r", "y">>,
   <<"e", "x", "p", "o", "r", "t">>,
   <<"f", "o", "o">>}

\* The piped inputs: every sequence of at most MaxStream of these lines.
Streams == UNION {[1..n -> StreamLines] : n \in 0..MaxStream}

\* input() returns the next line of the input.
Reading == loop.pc = "prompt" /\ stdin # <<>>

\* input() finds the input exhausted and raises EOFError.
AtEnd == loop.pc = "prompt" /\ stdin = <<>> /\ loop.lines < MaxReads

\* The line read is taken off the input.
Consumed == stdin' = Tail(stdin)

\* A run of main() on a piped input: the lines are read in order, and every
\* read after the last line raises EOFError.  At most MaxReads reads.
NextPiped ==
  \/ main_start /\ stdin' \in Streams
  \/ AtEnd /\ main_input_raises("EOFError") /\ UNCHANGED stdin
  \/ Reading /\ main_quit(Head(stdin)) /\ Consumed
  \/ Reading /\ main_help(Head(stdin)) /\ Consumed
  \/ Reading /\ main_add(Head(stdin)) /\ Consumed
  \/ Reading /\ main_sub(Head(stdin)) /\ Consumed
  \/ Reading /\ main_mul(Head(stdin)) /\ Consumed
  \/ Reading /\ main_div(Head(stdin)) /\ Consumed
  \/ Reading /\ main_m_plus(Head(stdin)) /\ Consumed
  \/ Reading /\ main_m_minus(Head(stdin)) /\ Consumed
  \/ Reading /\ main_mr(Head(stdin)) /\ Consumed
  \/ Reading /\ main_mc(Head(stdin)) /\ Consumed
  \/ Reading /\ main_history(Head(stdin)) /\ Consumed
  \/ Reading /\ main_clear_history(Head(stdin)) /\ Consumed
  \/ Reading /\ main_export(Head(stdin)) /\ Consumed
  \/ Reading /\ main_unknown(Head(stdin)) /\ Consumed

\* main() runs on: an iteration that can be made is made.
SpecPiped == InitMain /\ [][NextPiped]_vars /\ WF_vars(NextPiped)

\* -------------------------------------------------------------------- claims

ArithOps == {"add", "subtract", "multiply", "divide"}

MemoryOps == {"memory_add", "memory_subtract", "memory_clear"}

\* C1: after any sequence of operations the history holds at most max_history
\* entries, for every max_history the constructor accepts.
C1_HistoryWithinMax == Len(history) <= max_history

\* The last m elements of s.
LastN(s, m) == SubSeq(s, Len(s) - m + 1, Len(s))

\* C2: constructed with max_history = k >= 1, after n entries were appended
\* since construction or the last clear_history, the history is exactly the
\* last min(n, k) of them, oldest first.
C2_HistoryIsLastEntries ==
  max_history >= 1 => history = LastN(log, Min(Len(log), max_history))

\* Three entries were appended to a history of two: the oldest was evicted.
C2_Witness == max_history = 2 /\ Len(log) = 3 /\ Len(history) = 2

\* An int or a float within the float range.
IsNumber(v) == v.t \in {"int", "float"} /\ (v.t = "int" => Abs(v.n) <= MaxFloat)

\* r is the float of the rational n/d, d # 0.
IsFloatOf(r, n, d) ==
  LET nn == IF d < 0 THEN -n ELSE n
      dd == Abs(d)
  IN  IF Abs(nn) > MaxFloat * dd THEN r = F(Sign(nn), 0)
      ELSE r.d > 0 /\ r.n * dd = nn * r.d

IsZeroNumber(v) == v.t \in {"int", "float"} /\ v.n = 0 /\ v.d # 0

\* C4: divide(a, b) with b equal to zero raises ZeroDivisionError for every a
\* (a number or not), in every state.
C4_DivideByZeroRaises ==
  call.op = "divide" /\ IsZeroNumber(call.b) => call.exc = "ZeroDivisionError"

\* divide("abc", 0), as the second call of a session.
C4_Witness ==
  /\ call.op = "divide" /\ call.a = PStr(Word("abc")) /\ call.b = PInt(0)
  /\ call.exc = "ZeroDivisionError" /\ ncalls = 2

\* A value float() rejects as no number: None, or a text that is no numeral.
NotConvertible(v) == v.t = "none" \/ (v.t = "str" /\ v.lit = "word")

\* An integer beyond the float range: float() raises OverflowError.
TooLarge(v) == v.t = "int" /\ Abs(v.n) > MaxFloat

\* A number or numeral that converts to the float zero.
ConvertsToZero(v) ==
  (v.t \in {"int", "float"} \/ (v.t = "str" /\ v.lit # "word")) /\ v.n = 0 /\ v.d # 0

\* C5 as claimed: an arithmetic call raises TypeError whenever either input
\* cannot be converted, whatever the other input is.
C5_TypeErrorWhenever ==
  call.op \in ArithOps /\ (NotConvertible(call.a) \/ NotConvertible(call.b))
  => call.exc = "TypeError"

\* C5 as amended: an arithmetic call raises TypeError whenever either input
\* cannot be converted and neither is an integer beyond the float range,
\* except divide with a second input that converts to zero: that raises
\* ZeroDivisionError.
C5_TypeErrorUnlessZeroDivisor ==
  /\ call.op \in ArithOps
  /\ NotConvertible(call.a) \/ NotConvertible(call.b)
  /\ ~TooLarge(call.a) /\ ~TooLarge(call.b)
  => IF call.op = "divide" /\ ConvertsToZero(call.b)
     THEN call.exc = "ZeroDivisionError"
     ELSE call.exc = "TypeError"

\* divide(None, 2) raised TypeError, as the second call of a session.
C5_Witness ==
  /\ call.op = "divide" /\ call.a = None /\ call.b = PInt(2)
  /\ call.exc = "TypeError" /\ ncalls = 2

\* C6: an arithmetic call that raises leaves history, last result and memory
\* as they were.
C6_FailedArithmeticChangesNothing ==
  [][call'.op \in ArithOps /\ call'.exc # ""
     => UNCHANGED <<history, last_result, memory>>]_vars

\* divide(2, 0) raised on a calculator holding a last result and a memory.
C6_Witness ==
  /\ call.op = "divide" /\ call.exc = "ZeroDivisionError"
  /\ last_result # None /\ memory # Zero /\ history # <<>>

\* C7: the last result is absent until an arithmetic call succeeds and is
\* then the value the latest successful arithmetic call returned; no other
\* call changes it.
C7_LastResultIsLatestArithmetic == last_result = last_arith

\* memory_recall returned a memory that differs from the last result kept.
C7_Witness ==
  /\ call.op = "memory_recall" /\ last_result # None
  /\ call.ret # last_result

\* C8: memory_add() / memory_subtract() without a value raise ValueError
\* exactly when no arithmetic call has succeeded; otherwise they add /
\* subtract the result of the latest successful arithmetic call.
C8_OmittedValueUsesLastArithmetic ==
  [][call'.op \in {"memory_add", "memory_subtract"} /\ call'.a = None
     => IF last_arith = None
        THEN call'.exc = "ValueError" /\ memory' = memory
        ELSE /\ call'.exc = ""
             /\ memory' = IF call'.op = "memory_add"
                          THEN FAdd(memory, FloatOf(last_arith))
                          ELSE FSub(memory, FloatOf(last_arith))]_vars

\* add, then clear_history, then memory_subtract() took the sum off memory.
C8_Witness ==
  /\ call.op = "memory_subtract" /\ call.a = None /\ call.exc = ""
  /\ Len(log) = 1 /\ ncalls = 3 /\ memory = FNeg(FloatOf(last_arith))

\* The float sum, in call order, of the operands of s with the given sign.
RECURSIVE SumOf(_, _)
SumOf(s, sign) ==
  IF s = <<>> THEN Zero
  ELSE LET rest == SumOf(SubSeq(s, 1, Len(s) - 1), sign)
           e == s[Len(s)]
       IN  IF e.sign = sign THEN FAdd(rest, e.x) ELSE rest

\* The additions and subtractions of s applied to 0.0 one after another.
RECURSIVE Replay(_)
Replay(s) ==
  IF s = <<>> THEN Zero
  ELSE LET rest == Replay(SubSeq(s, 1, Len(s) - 1))
           e == s[Len(s)]
       IN  IF e.sign = 1 THEN FAdd(rest, e.x) ELSE FSub(rest, e.x)

\* C9 as claimed: memory is the sum of the values added minus the sum of the
\* values subtracted since construction or the last memory_clear.
C9_MemoryIsSumMinusSum == memory = FSub(SumOf(mlog, 1), SumOf(mlog, -1))

\* C9 as amended: memory is the result of applying the additions and
\* subtractions made since construction or the last memory_clear to 0.0, one
\* after another in call order.
C9_MemoryIsReplay == memory = Replay(mlog)

\* The largest float was added, subtracted and added again.
C9_Witness ==
  /\ Len(mlog) = 3 /\ mlog[1].sign = 1 /\ mlog[2].sign = -1 /\ mlog[3].sign = 1
  /\ memory = F(MaxFloat, 1)

\* C10: memory changes in memory_add, memory_subtract and memory_clear only.
C10_MemoryFrame == [][memory' # memory => call'.op \in MemoryOps]_vars

\* An arithmetic call succeeded on a calculator whose memory is not 0.0.
C10_Witness == call.op = "multiply" /\ call.exc = "" /\ memory # Zero

\* C11: memory is a finite value in every reachable state: no sequence of
\* memory_add / memory_subtract calls with accepted values makes it infinite
\* or not-a-number.
C11_MemoryFinite == IsFinite(memory)

\* C12: get_history returns an independent snapshot equal to the current
\* history: the list returned has the items of the history; a change the
\* caller makes to a returned list leaves the history as it was (and so what
\* every later get_history returns); and no later call changes a list
\* already returned.
C12_SnapshotIndependent ==
  [][/\ call'.op = "get_history"
        => call'.out = history /\ snapshot'.items = history /\ history' = history
     /\ call'.op = "list.append" => history' = history
     /\ snapshot.held /\ call'.op \notin {"get_history", "list.append"}
        => snapshot'.items = snapshot.items]_vars

\* After an arithmetic call the caller took the history and appended to the
\* list returned: that list has two items, the history one.
C12_Witness ==
  /\ call.op = "list.append" /\ ncalls = 3
  /\ Len(snapshot.items) = 2 /\ Len(history) = 1 /\ Len(log) = 1

\* The operations that append an entry when they succeed.
AppendingOps ==
  ArithOps \cup {"memory_add", "memory_subtract", "memory_recall", "memory_clear"}

\* What a successful appending call does to the history: its entry is the
\* newest element; the length grows by 1 when it was below max_history; it
\* stays at max_history, the oldest entry gone, when it was at max_history.
AppendsOneEntry ==
  call'.op \in AppendingOps /\ call'.exc = ""
  => /\ Len(log') = Len(log) + 1
     /\ log' = Append(log, log'[Len(log')])
     /\ history' # <<>> /\ history'[Len(history')] = log'[Len(log')]
     /\ Len(history) < max_history
        => history' = Append(history, log'[Len(log')])
     /\ Len(history) = max_history
        => /\ Len(history') = max_history
           /\ history' = Append(Tail(history), log'[Len(log')])

C14_MemoryClearResets ==
  [][call'.op = "memory_clear"
     => /\ call'.exc = ""
        /\ memory' = Zero
        /\ history' # <<>>
        /\ history'[Len(history')]
             = Entry(now, <<Word("MC"), Word("(Memory"), Word("cleared)")>>)]_vars

\* The memory had overflowed to infinity, memory_clear made it 0.0.
C14_Witness ==
  /\ call.op = "memory_clear" /\ memory = Zero /\ Len(log) = 3
  /\ Len(log[2].text) = 5 /\ log[2].text[4] = FloatLit(Inf)
  /\ log[3].text = <<Word("MC"), Word("(Memory"), Word("cleared)")>>

\* C15: clear_history leaves the history empty and the memory and the last
\* result as they were; the next appending call leaves a history of its one
\* entry, as on a new calculator.
C15_ClearHistoryFrame ==
  [][/\ call'.op = "clear_history"
        => /\ call'.exc = "" /\ history' = <<>>
           /\ memory' = memory /\ last_result' = last_result
     /\ call.op = "clear_history" /\ call'.op \in AppendingOps /\ call'.exc = ""
        => Len(log') = 1 /\ history' = <<log'[1]>>]_vars

\* An arithmetic call set the last result, the history was cleared, and
\* memory_recall then left its entry alone in the history.
C15_Witness ==
  /\ call.op = "memory_recall" /\ ncalls = 3
  /\ Len(log) = 1 /\ history = log /\ last_result # None

\* C16: an export_history whose write succeeds returns True and writes an
\* object with an export_time and with the calculations equal to the history
\* at the time of the call, entry for entry in the same order; it leaves the
\* history, the memory and the last result as they were.
C16_ExportWritesHistory ==
  [][call'.op = "export_history" /\ call'.a = PBool(TRUE)
     => /\ call'.exc = "" /\ call'.ret = PBool(TRUE)
        /\ file'.written /\ file'.export_time = now
        /\ file'.calculations = history
        /\ call'.out = history
        /\ UNCHANGED <<history, memory, last_result>>]_vars

\* Two different entries were exported, oldest first.
C16_Witness ==
  /\ call.op = "export_history" /\ call.ret = PBool(TRUE) /\ file.written
  /\ Len(history) = 2 /\ history[1] # history[2]
  /\ file.calculations = history

\* C17: an export_history whose write fails with an I/O error returns False,
\* raises nothing, and leaves the history, the memory and the last result as
\* they were.
C17_ExportFailureIsReturned ==
  [][call'.op = "export_history" /\ call'.a = PBool(FALSE)
     => /\ call'.exc = "" /\ call'.ret = PBool(FALSE)
        /\ UNCHANGED <<history, memory, last_result>>]_vars

\* The write failed on a calculator holding a history, a memory and a last
\* result.
C17_Witness ==
  /\ call.op = "export_history" /\ call.a = PBool(FALSE)
  /\ call.ret = PBool(FALSE)
  /\ history # <<>> /\ memory # Zero /\ last_result # None

\* The step is an iteration of the command loop.
Iteration == loop.pc = "prompt" /\ loop'.lines = loop.lines + 1

\* The input read is a line that equals quit after trimming and lowercasing.
IsQuit(ev) == ev.kind = "line" /\ lower(strip(ev.text)) = w_quit

Commands ==
  {w_add, w_sub, w_mul, w_div, w_m_plus, w_m_minus, w_mr, w_mc, w_history,
   w_clear_history, w_export, w_help, w_quit}

\* The first whitespace-separated token of the line trimmed and lowercased
\* (empty when there is none), and the tokens.
Tokens(text) == split(lower(strip(text)))

CommandName(text) == IF Tokens(text) = <<>> THEN <<>> ELSE Tokens(text)[1]

\* C19: a line whose command name is none of the commands prints the
\* unknown-command message, calls no operation of the calculator, and the
\* loop goes on.
C19_UnknownCommandDoesNothing ==
  [][Iteration /\ loop'.input.kind = "line"
       /\ CommandName(loop'.input.text) \notin Commands
     => /\ loop'.printed = "unknown command"
        /\ call' = call /\ ncalls' = ncalls
        /\ loop'.pc = "prompt"]_vars

\* C20: a line of add, sub, mul or div that is not the command followed by
\* exactly two tokens prints the usage message, calls no operation of the
\* calculator (history, memory and last result stay), and the loop goes on.
C20_WrongArityPrintsUsage ==
  [][Iteration /\ loop'.input.kind = "line"
       /\ CommandName(loop'.input.text) \in {w_add, w_sub, w_mul, w_div}
       /\ Len(Tokens(loop'.input.text)) # 3
     => /\ loop'.printed = "usage"
        /\ call' = call /\ ncalls' = ncalls
        /\ UNCHANGED <<history, memory, last_result>>
        /\ loop'.pc = "prompt"]_vars

\* After a sum was computed, "add 1 2 3" printed the usage message.
C20_Witness ==
  /\ loop.pc = "prompt" /\ loop.printed = "usage"
  /\ loop.input = Line(<<"a", "d", "d", " ", "1", " ", "2", " ", "3">>)
  /\ ncalls = 1 /\ call.op = "add" /\ Len(history) = 1

\* C21: every error a Calculator operation raises during command dispatch
\* (TypeError, ZeroDivisionError, ValueError for no last result) is caught by
\* the command loop: a message is printed and the loop awaits the next
\* command with the calculator as it was before the failing command.
C21_DomainErrorsCaught ==
  [][Iteration /\ ncalls' = ncalls + 1
       /\ call'.exc \in {"TypeError", "ZeroDivisionError", "ValueError"}
     => /\ loop'.pc = "prompt"
        /\ loop'.printed \in {"error", "invalid number format"}
        /\ UNCHANGED <<memory, history, max_history, last_result>>]_vars

\* After "m+ 2" the line "div 1 0" raised ZeroDivisionError: the error was
\* printed, the loop awaits the next command, the memory is still 2.
C21_Witness ==
  /\ loop.pc = "prompt" /\ loop.lines = 2 /\ loop.printed = "error"
  /\ loop.input.kind = "line"
  /\ call.op = "divide" /\ call.exc = "ZeroDivisionError"
  /\ memory = F(2, 1) /\ Len(history) = 1

\* C22: a memory_add or memory_subtract that fails, with ValueError because
\* the value is omitted and there is no last result or with TypeError
\* because the value cannot be converted, leaves the memory, the history and
\* the last result as they were.
C22_FailedMemoryChangesNothing ==
  [][call'.op \in {"memory_add", "memory_subtract"}
       /\ call'.exc \in {"ValueError", "TypeError"}
     => UNCHANGED <<memory, history, last_result>>]_vars

\* memory_subtract of a word raised TypeError on a calculator holding a
\* last result, a memory and a history.
C22_Witness ==
  /\ call.op = "memory_subtract" /\ call.exc = "TypeError"
  /\ call.a = PStr(Word("abc"))
  /\ last_result # None /\ memory # Zero /\ Len(history) = 2

\* A numeric argument token of the command of the line fails to parse: one
\* of the two operands of add, sub, mul, div, or the value of m+ / m-.
ParseFails(text) ==
  LET parts == Tokens(text)
      b == branch(command(text))
  IN  \/ /\ b \in {"add", "sub", "mul", "div"} /\ Len(parts) = 3
         /\ \/ str_to_float(parts[2]).exc # ""
            \/ str_to_float(parts[3]).exc # ""
      \/ /\ b \in {"m+", "m-"} /\ Len(parts) > 1
         /\ str_to_float(parts[2]).exc # ""

\* C23: the command loop prints the invalid-number-format message exactly
\* when a numeric argument token of the command fails to parse; an error
\* raised by the calculator is never reported that way.
C23_InvalidNumberOnlyForParse ==
  [][Iteration /\ loop'.input.kind = "line"
     => (loop'.printed = "invalid number format"
         <=> ParseFails(loop'.input.text))]_vars

\* The text of the newest entry of the history after the step.
NewestText == history'[Len(history')].text

\* C26: the entry memory_add / memory_subtract appends records the operand
\* used and the memory after the update; the entry memory_recall appends
\* records the current memory, which is the value memory_recall returns.
C26_MemoryEntriesRecordNewMemory ==
  [][/\ call'.op \in {"memory_add", "memory_subtract"} /\ call'.exc = ""
        => /\ Len(log') = Len(log) + 1 /\ history' # <<>>
           /\ NewestText =
                <<Word(IF call'.op = "memory_add" THEN "M+" ELSE "M-"),
                  Format(IF call'.a = None THEN last_result ELSE call'.a),
                  Word("(Memory:"), FloatLit(memory'), Word(")")>>
     /\ call'.op = "memory_recall"
        => /\ Len(log') = Len(log) + 1 /\ history' # <<>>
           /\ NewestText =
                <<Word("MR"), Word("(Memory:"), FloatLit(memory), Word(")")>>
           /\ call'.ret = PFloat(memory)
           /\ memory' = memory]_vars

\* memory_add(2) twice, then memory_recall: the second entry shows the
\* memory 4, the third shows 4 and 4 was returned.
C26_Witness ==
  /\ call.op = "memory_recall" /\ call.ret = PFloat(F(4, 1))
  /\ Len(log) = 3 /\ Len(log[2].text) = 5
  /\ log[2].text[2] = IntLit(2) /\ log[2].text[4] = FloatLit(F(4, 1))
  /\ log[3].text[3] = FloatLit(F(4, 1))

\* A line of the input not read yet equals quit after trimming and
\* lowercasing.
QuitAhead ==
  \E i \in 1..Len(stdin) : lower(strip(stdin[i])) = w_quit

\* C24: when the command loop reads a line that equals quit after trimming
\* and lowercasing, it ends at that line and calls no operation of the
\* calculator; once ended it reads no further line; so when such a line is
\* in the input, the loop ends eventually.
C24_QuitEndsTheLoop ==
  /\ [][/\ Iteration /\ IsQuit(loop'.input)
            => /\ loop'.pc = "done"
               /\ call' = call /\ ncalls' = ncalls
               /\ UNCHANGED <<memory, history, last_result>>
         /\ loop.pc # "done"]_vars
  /\ (QuitAhead ~> loop.pc = "done")

\* "add 1 2" was read, then " Quit ": the loop has ended at that line with
\* the sum as the one call made.
C24_Witness ==
  /\ loop.pc = "done" /\ loop.input = Line(<<" ", "Q", "u", "i", "t", " ">>)
  /\ loop.lines = 2 /\ ncalls = 1 /\ call.op = "add" /\ Len(history) = 1
  /\ stdin = <<>>

\* The input is exhausted and the loop awaits a command.
Exhausted == loop.pc = "prompt" /\ stdin = <<>>

\* C25: when the input is exhausted with no quit line read, the read raises
\* EOFError, the loop catches it, prints the error and reads again: from
\* then on it never ends, and it goes on reading as long as the run lasts.
C25_EndOfInputNeverEnds ==
  /\ [][Iteration /\ stdin = <<>>
         => /\ loop'.input = Raised("EOFError")
            /\ loop'.printed = "error"
            /\ loop'.pc = "prompt" /\ stdin' = <<>>
            /\ call' = call /\ ncalls' = ncalls
            /\ UNCHANGED <<memory, history, last_result>>]_vars
  /\ [](Exhausted => [](loop.pc = "prompt"))
  /\ (Exhausted ~> (loop.lines = MaxReads /\ loop.pc = "prompt"))

\* Two commands were read, then every read raised EOFError: the loop still
\* awaits a command after the last read of the run.
C25_Witness ==
  /\ loop.pc = "prompt" /\ loop.lines = MaxReads
  /\ loop.input = Raised("EOFError") /\ loop.printed = "error"
  /\ stdin = <<>> /\ ncalls = 2 /\ Len(history) = 2

====
